---- MODULE Spec2Model ----
(***************************************************************************)
(* Resume review engine of src/util/RsumeScan.js: text extraction, the     *)
(* battery of heuristic checks, the layout (formatting) check, the scorer  *)
(* and the orchestrator reviewResume.                                      *)
(*                                                                         *)
(* JavaScript strings are modelled as sequences of one-character strings.  *)
(* A feedback item is a JavaScript string too; since only its leading      *)
(* UTF-16 code units are ever inspected (String.prototype.startsWith in    *)
(* calculateScore), an item is kept as [head, tail]: head is the sequence  *)
(* of its leading UTF-16 code units (at least two of them unless the       *)
(* string is shorter), tail is the rest of the text.                       *)
(***************************************************************************)
EXTENDS Integers, Sequences, FiniteSets, TLC

VARIABLES
    pc,             \* per review: the await point the invocation is suspended at
    filePath,       \* per review: argument filePath, bound to the file it names
    jobDesc,        \* per review: argument jobDesc
    text,           \* reviewResume: const text
    results,        \* reviewResume: let results
    issues,         \* checkFormattingConsistency: const issues
    fonts,          \* checkFormattingConsistency: let fonts
    fontSizes,      \* checkFormattingConsistency: let fontSizes
    leftPositions,  \* checkFormattingConsistency: let leftPositions
    i,              \* checkFormattingConsistency: loop variable i
    leftVar,        \* checkFormattingConsistency: const leftVar
    raised,         \* per review: the expression that threw inside the try block
    ret,            \* per review: how the promise of reviewResume settled
    trace,          \* per review: the functions called so far, in call order
    input,          \* argument of a function called on its own
    output          \* <<>> before the call, then <<its return value>>

vars == <<pc, filePath, jobDesc, text, results, issues, fonts, fontSizes,
          leftPositions, i, leftVar, raised, ret, trace, input, output>>

reviewVars == <<pc, filePath, jobDesc, text, results, issues, fonts, fontSizes,
                leftPositions, i, leftVar, raised, ret, trace>>

-----------------------------------------------------------------------------
(* Bounds of the model.                                                    *)

\* Number of reviewResume invocations in flight at once.
NumReviews == 2

\* Longest feedback sequence of arbitrary items given to calculateScore.
MaxFeedbackLen == 3

\* Longest feedback sequence that repeats one item.
MaxRepeat == 10

\* Largest number of sentences in a text given to checkGrammarHeuristics.
MaxSentences == 7

\* Longest text, and longest job description, given to checkKeywordMatch.
MaxTextLen == 3
MaxJobDescLen == 2

\* Largest number of distinct font names in a generated layout.
MaxFonts == 3

\* Largest number of distinct font sizes in a generated layout.
MaxFontSizes == 5

\* Largest number of pages in a generated layout.
MaxPages == 2

\* Largest number of distinct bullet glyphs on page 1 of a generated layout.
MaxBulletStyles == 2

-----------------------------------------------------------------------------
(* JavaScript values.                                                      *)

Undefined == [t |-> "undefined", v |-> <<>>]

Str(chars) == [t |-> "string", v |-> chars]

\* !x for x undefined or a string
Falsy(x) == x.t = "undefined" \/ x.v = <<>>

RECURSIVE SeqSum(_)
SeqSum(s) == IF s = <<>> THEN 0 ELSE Head(s) + SeqSum(Tail(s))

RECURSIVE Flatten(_)
Flatten(ss) == IF ss = <<>> THEN <<>> ELSE Head(ss) \o Flatten(Tail(ss))

RECURSIVE Repeat(_, _)
Repeat(s, n) == IF n = 0 THEN <<>> ELSE s \o Repeat(s, n - 1)

-----------------------------------------------------------------------------
(* Characters and strings.                                                 *)

UpperLetters == << "A","B","C","D","E","F","G","H","I","J","K","L","M",
                   "N","O","P","Q","R","S","T","U","V","W","X","Y","Z" >>

LowerLetters == << "a","b","c","d","e","f","g","h","i","j","k","l","m",
                   "n","o","p","q","r","s","t","u","v","w","x","y","z" >>

Range(f) == { f[k] : k \in DOMAIN f }

UpperCase == Range(UpperLetters)
LowerCase == Range(LowerLetters)
Digits == {"0","1","2","3","4","5","6","7","8","9"}
WhiteSpace == {" ", "\n", "\t", "\r"}
LineTerminators == {"\n", "\r"}

IsUpper(c) == c \in UpperCase                           \* [A-Z]
IsLower(c) == c \in LowerCase                           \* [a-z]
IsLetter(c) == c \in UpperCase \/ c \in LowerCase       \* [A-Za-z]
IsDigit(c) == c \in Digits                              \* \d
IsSpace(c) == c \in WhiteSpace                          \* \s
IsLineTerminator(c) == c \in LineTerminators            \* what ^ follows under /m
IsWordChar(c) == IsLetter(c) \/ IsDigit(c) \/ c = "_"   \* \w

\* the glyphs of /^[-•▪*]/: U+2022 and U+25AA are named by their code points
BulletGlyphs == {"-", "U+2022", "U+25AA", "*"}

\* the lower-case and the upper-case form of each ASCII letter
LowerOf ==
    "A" :> "a" @@ "B" :> "b" @@ "C" :> "c" @@ "D" :> "d" @@ "E" :> "e" @@
    "F" :> "f" @@ "G" :> "g" @@ "H" :> "h" @@ "I" :> "i" @@ "J" :> "j" @@
    "K" :> "k" @@ "L" :> "l" @@ "M" :> "m" @@ "N" :> "n" @@ "O" :> "o" @@
    "P" :> "p" @@ "Q" :> "q" @@ "R" :> "r" @@ "S" :> "s" @@ "T" :> "t" @@
    "U" :> "u" @@ "V" :> "v" @@ "W" :> "w" @@ "X" :> "x" @@ "Y" :> "y" @@
    "Z" :> "z"

UpperOf ==
    "a" :> "A" @@ "b" :> "B" @@ "c" :> "C" @@ "d" :> "D" @@ "e" :> "E" @@
    "f" :> "F" @@ "g" :> "G" @@ "h" :> "H" @@ "i" :> "I" @@ "j" :> "J" @@
    "k" :> "K" @@ "l" :> "L" @@ "m" :> "M" @@ "n" :> "N" @@ "o" :> "O" @@
    "p" :> "P" @@ "q" :> "Q" @@ "r" :> "R" @@ "s" :> "S" @@ "t" :> "T" @@
    "u" :> "U" @@ "v" :> "V" @@ "w" :> "W" @@ "x" :> "X" @@ "y" :> "Y" @@
    "z" :> "Z"

LowerChar(c) == IF c \in UpperCase THEN LowerOf[c] ELSE c

UpperChar(c) == IF c \in LowerCase THEN UpperOf[c] ELSE c

\* s.toLowerCase()
toLowerCase(s) == [k \in 1..Len(s) |-> LowerChar(s[k])]

SetMin(S) == CHOOSE x \in S : \A y \in S : x <= y
SetMax(S) == CHOOSE x \in S : \A y \in S : x >= y

\* whether sub stands in s at position k
OccursAt(s, sub, k) ==
    k + Len(sub) - 1 <= Len(s) /\ \A j \in 1..Len(sub) : s[k + j - 1] = sub[j]

\* whether sub occurs in s
Contains(s, sub) == \E k \in 1..(Len(s) - Len(sub) + 1) : OccursAt(s, sub, k)

\* The pieces of s between the separators of length n that start at the
\* positions seps, taken from left to right without overlap.
RECURSIVE SplitAt(_, _, _, _)
SplitAt(s, seps, n, start) ==
    LET rest == { k \in seps : k >= start }
    IN  IF rest = {} THEN << SubSeq(s, start, Len(s)) >>
        ELSE << SubSeq(s, start, SetMin(rest) - 1) >>
             \o SplitAt(s, seps, n, SetMin(rest) + n)

\* s.split(sep) for a non-empty separator string
Split(s, sep) ==
    SplitAt(s, { k \in 1..(Len(s) - Len(sep) + 1) : OccursAt(s, sep, k) }, Len(sep), 1)

\* s.split(/[...]/) for a class of single characters
SplitClass(s, class) == SplitAt(s, { k \in 1..Len(s) : s[k] \in class }, 1, 1)

\* s.trim()
trim(s) ==
    LET keep == { k \in 1..Len(s) : ~IsSpace(s[k]) }
    IN  IF keep = {} THEN <<>> ELSE SubSeq(s, SetMin(keep), SetMax(keep))

\* the text of a character sequence, for template literals
RECURSIVE Join(_)
Join(s) == IF s = <<>> THEN "" ELSE Head(s) \o Join(Tail(s))

-----------------------------------------------------------------------------
(* Feedback items and their icons (UTF-16 code units of the literals).     *)

Red    == <<55357, 56628>>   \* U+1F534
Warn   == <<9888, 65039>>    \* U+26A0 U+FE0F
Orange == <<55357, 57312>>   \* U+1F7E0
Yellow == <<55357, 57313>>   \* U+1F7E1
Green  == <<55357, 57314>>   \* U+1F7E2
Check  == <<9989, 32>>       \* U+2705 and the space that follows it
Cross  == <<10060, 32>>      \* U+274C and the space that follows it

Item(icon, rest) == [head |-> icon, tail |-> rest]

\* r.includes(icon), on the leading code units
Includes(r, icon) ==
    \E k \in 1..(Len(r.head) - Len(icon) + 1) : SubSeq(r.head, k, k + Len(icon) - 1) = icon

\* r.startsWith(icon)
StartsWith(r, icon) ==
    /\ Len(r.head) >= Len(icon)
    /\ SubSeq(r.head, 1, Len(icon)) = icon

-----------------------------------------------------------------------------
(* The rule-based analyzers.                                               *)

\* (sec.match(/^[-•▪*]/gm) || []).length
bulletCount(sec) ==
    Cardinality({ k \in 1..Len(sec) :
        /\ sec[k] \in BulletGlyphs
        /\ (k = 1 \/ IsLineTerminator(sec[k - 1])) })

\* (sec.match(/\./g) || []).length
sentenceCount(sec) == Cardinality({ k \in 1..Len(sec) : sec[k] = "." })

RECURSIVE BulletIssues(_, _)
BulletIssues(sections, k) ==
    IF k > Len(sections) THEN <<>>
    ELSE (IF sentenceCount(sections[k]) > 5 /\ bulletCount(sections[k]) = 0
          THEN << Item(Orange, " Section " \o ToString(k)
                     \o " has long paragraphs - use concise bullet points.") >>
          ELSE <<>>)
         \o BulletIssues(sections, k + 1)

checkBulletPoints(txt) == BulletIssues(Split(txt, <<"\n", "\n">>), 1)

checkProjects(txt) ==
    IF ~Contains(toLowerCase(txt), <<"p","r","o","j","e","c","t">>)
    THEN << Item(Yellow,
             " Add a 'Projects' section to showcase your hands-on experience.") >>
    ELSE <<>>

\* \b before position k (1..Len(s)+1)
WordBoundary(s, k) ==
    (k - 1 \in 1..Len(s) /\ IsWordChar(s[k - 1])) # (k \in 1..Len(s) /\ IsWordChar(s[k]))

EmailLocal(c) == IsLetter(c) \/ IsDigit(c) \/ c \in {".", "_", "%", "+", "-"}
EmailDomain(c) == IsLetter(c) \/ IsDigit(c) \/ c \in {".", "-"}

\* text.match(/\b[A-Z0-9._%+-]+@[A-Z0-9.-]+\.[A-Z]{2,}\b/i)
emailMatch(s) ==
    \E a \in 1..Len(s) :
        /\ s[a] = "@"
        /\ \E st \in 1..(a - 1) :
              WordBoundary(s, st) /\ \A k \in st..(a - 1) : EmailLocal(s[k])
        /\ \E d \in (a + 2)..Len(s) :
              /\ s[d] = "."
              /\ \A k \in (a + 1)..(d - 1) : EmailDomain(s[k])
              /\ \E e \in (d + 2)..Len(s) :
                    /\ \A k \in (d + 1)..e : IsLetter(s[k])
                    /\ WordBoundary(s, e + 1)

\* text.match(/(\+?\d{1,3}[-.\s]?)?\d{10}/): the leading group is optional, so
\* there is a match exactly when ten digits stand in a row
phoneMatch(s) ==
    \E k \in 1..(Len(s) - 9) : \A j \in k..(k + 9) : IsDigit(s[j])

checkContactFormatting(txt) ==
    IF ~emailMatch(txt) \/ ~phoneMatch(txt)
    THEN << Item(Red, " Missing proper contact information (email/phone).") >>
    ELSE <<>>

\* Where a match of /^[A-Z][A-Za-z\s]+(?=\n|:)/m that starts at k ends; 0 if none.
HeadingEnd(s, k) ==
    IF ~(IsUpper(s[k]) /\ (k = 1 \/ IsLineTerminator(s[k - 1]))) THEN 0
    ELSE LET stop == { q \in (k + 1)..Len(s) : ~(IsLetter(s[q]) \/ IsSpace(s[q])) }
             last == IF stop = {} THEN Len(s) ELSE SetMin(stop) - 1
             ends == { e \in (k + 1)..last :
                         e < Len(s) /\ (s[e + 1] = "\n" \/ s[e + 1] = ":") }
         IN  IF ends = {} THEN 0 ELSE SetMax(ends)

\* text.match(/^[A-Z][A-Za-z\s]+(?=\n|:)/gm) || []: the matches from position
\* from on, each search resuming where the last match ended
RECURSIVE HeadingsFrom(_, _)
HeadingsFrom(s, from) ==
    LET starts == { k \in from..Len(s) : HeadingEnd(s, k) # 0 }
    IN  IF starts = {} THEN <<>>
        ELSE << SubSeq(s, SetMin(starts), HeadingEnd(s, SetMin(starts))) >>
             \o HeadingsFrom(s, HeadingEnd(s, SetMin(starts)) + 1)

\* the words SMALL_WORDS of the title-case package matches as a whole token
SmallWords ==
    { <<"a">>, <<"a","n">>, <<"a","d">>, <<"a","n","d">>, <<"a","s">>, <<"a","t">>,
      <<"b","e","c","a","u","s","e">>, <<"b","u","t">>, <<"b","y">>, <<"e","n">>,
      <<"f","o","r">>, <<"i","f">>, <<"i","n">>, <<"n","e","i","t","h","e","r">>,
      <<"n","o","r">>, <<"o","f">>, <<"o","n">>, <<"o","r">>, <<"o","n","l","y">>,
      <<"o","v","e","r">>, <<"p","e","r">>, <<"s","o">>, <<"s","o","m","e">>,
      <<"t","h","a","t">>, <<"t","h","a","n">>, <<"t","h","e">>, <<"t","o">>,
      <<"u","p">>, <<"u","p","o","n">>, <<"v">>, <<"v","s">>,
      <<"v","e","r","s","u","s">>, <<"v","i","a">>, <<"w","h","e","n">>,
      <<"w","i","t","h">>, <<"w","i","t","h","o","u","t">>, <<"y","e","t">> }

\* titleCase(h) of the title-case package, for h made of letters and white
\* space (all a heading match can hold): each token is a run of letters or one
\* white-space character; a token with a capital after its first character, or
\* a small word that is neither first nor last, is kept; otherwise its first
\* letter is capitalised.
RECURSIVE TitleFrom(_, _)
TitleFrom(h, k) ==
    IF k > Len(h) THEN <<>>
    ELSE IF IsSpace(h[k]) THEN << h[k] >> \o TitleFrom(h, k + 1)
    ELSE LET stop == { q \in k..Len(h) : IsSpace(h[q]) }
             e == IF stop = {} THEN Len(h) ELSE SetMin(stop) - 1
             token == SubSeq(h, k, e)
             manual == \E q \in 2..Len(token) : IsUpper(token[q])
             small == toLowerCase(token) \in SmallWords
         IN  (IF ~manual /\ (~small \/ k = 1 \/ e = Len(h))
              THEN << UpperChar(token[1]) >> \o Tail(token)
              ELSE token)
             \o TitleFrom(h, e + 1)

titleCase(h) == TitleFrom(h, 1)

RECURSIVE HeadingIssues(_)
HeadingIssues(headings) ==
    IF headings = <<>> THEN <<>>
    ELSE (IF Head(headings) # titleCase(Head(headings))
          THEN << Item(Yellow, " Heading \"" \o Join(Head(headings)) \o "\" should be \""
                     \o Join(titleCase(Head(headings))) \o "\" for consistency.") >>
          ELSE <<>>)
         \o HeadingIssues(Tail(headings))

checkHeadings(txt) == HeadingIssues(HeadingsFrom(txt, 1))

\* /experience|achievement|project|work/i.test(line)
MentionsWork(line) ==
    \E w \in { <<"e","x","p","e","r","i","e","n","c","e">>,
               <<"a","c","h","i","e","v","e","m","e","n","t">>,
               <<"p","r","o","j","e","c","t">>, <<"w","o","r","k">> } :
        Contains(toLowerCase(line), w)

\* /\d+%|\d+\+/.test(line)
Quantified(line) ==
    \E k \in 1..(Len(line) - 1) : IsDigit(line[k]) /\ line[k + 1] \in {"%", "+"}

RECURSIVE AchievementIssues(_)
AchievementIssues(lines) ==
    IF lines = <<>> THEN <<>>
    ELSE (IF MentionsWork(Head(lines)) /\ ~Quantified(Head(lines))
          THEN << Item(Green, " Quantify achievements - add measurable results like \"Improved efficiency by 20%\".") >>
          ELSE <<>>)
         \o AchievementIssues(Tail(lines))

checkAchievements(txt) == AchievementIssues(Split(txt, <<"\n">>))

checkFileCompatibility(txt) ==
    IF Len(txt) < 200
    THEN << Item(Red, " File may be image-based (no readable text). Use text-based PDF or DOCX.") >>
    ELSE <<>>

\* str.replace(/\s+/g, '')
StripSpaces(s) == SelectSeq(s, LAMBDA c : ~IsSpace(c))

\* the bigrams of s at positions from..Len(s)-1 that are still available in
\* the bag left of the first string's bigrams (count - 1 on each hit)
RECURSIVE IntersectionSize(_, _, _)
IntersectionSize(left, s, k) ==
    IF k > Len(s) - 1 THEN 0
    ELSE LET bigram == SubSeq(s, k, k + 1)
         IN  IF bigram \in DOMAIN left /\ left[bigram] > 0
             THEN 1 + IntersectionSize([left EXCEPT ![bigram] = @ - 1], s, k + 1)
             ELSE IntersectionSize(left, s, k + 1)

\* stringSimilarity.compareTwoStrings(first, second) of the string-similarity
\* package (Dice coefficient on character bigrams), as the fraction <<num, den>>
compareTwoStrings(a, b) ==
    LET first == StripSpaces(a)
        second == StripSpaces(b)
        grams == { SubSeq(first, k, k + 1) : k \in 1..(Len(first) - 1) }
        firstBigrams == [ g \in grams |->
            Cardinality({ k \in 1..(Len(first) - 1) : SubSeq(first, k, k + 1) = g }) ]
    IN  IF first = second THEN <<1, 1>>
        ELSE IF Len(first) < 2 \/ Len(second) < 2 THEN <<0, 1>>
        ELSE << 2 * IntersectionSize(firstBigrams, second, 1),
                Len(first) + Len(second) - 2 >>

\* (score * 100).toFixed(2) for score = num/den: two decimals, half rounded up
toFixed2Percent(score) ==
    LET h == (2 * 10000 * score[1] + score[2]) \div (2 * score[2])
    IN  ToString(h \div 100) \o "." \o ToString((h % 100) \div 10) \o ToString(h % 10)

\* a mutant: the early return on an empty job description is missing
checkKeywordMatchUnguarded(txt, jd) ==
    LET jobDescription == IF jd.t = "undefined" THEN Str(<<>>) ELSE jd
        score == compareTwoStrings(toLowerCase(txt), toLowerCase(jobDescription.v))
    IN  << Item(Green, " Keyword match score: " \o toFixed2Percent(score) \o "%") >>

\* checkKeywordMatch(text, jobDesc = ""): jd is undefined or a string
checkKeywordMatch(txt, jd) ==
    LET jobDescription == IF jd.t = "undefined" THEN Str(<<>>) ELSE jd
        score == compareTwoStrings(toLowerCase(txt), toLowerCase(jobDescription.v))
    IN  IF Falsy(jobDescription) THEN <<>>
        ELSE << Item(Green, " Keyword match score: " \o toFixed2Percent(score) \o "%") >>

\* text.split(/[.!?]/).filter(s => s.trim().length > 0)
Sentences(txt) ==
    SelectSeq(SplitClass(txt, {".", "!", "?"}), LAMBDA s : Len(trim(s)) > 0)

\* sentences.filter(s => s.split(" ").length > 25)
LongSentences(sentences) ==
    SelectSeq(sentences, LAMBDA s : Len(Split(s, <<" ">>)) > 25)

\* sentences.filter(s => /^[a-z]/.test(s.trim()))
LowercaseStart(sentences) ==
    SelectSeq(sentences, LAMBDA s : IsLower(trim(s)[1]))

LongItem(n) ==
    Item(Orange, " Found " \o ToString(n) \o " long sentences - consider splitting for clarity.")

LowercaseItem ==
    Item(Orange, " Some sentences start with lowercase letters - check capitalization.")

GrammarOkItem == Item(Check, "No major grammar or structure issues found.")

checkGrammarHeuristics(txt) ==
    LET sentences == Sentences(txt)
        longSentences == LongSentences(sentences)
        lowercaseStart == LowercaseStart(sentences)
        flagged ==
            (IF Len(longSentences) > 5 THEN << LongItem(Len(longSentences)) >> ELSE <<>>)
            \o (IF Len(lowercaseStart) > 0 THEN << LowercaseItem >> ELSE <<>>)
    IN  IF Len(flagged) = 0 THEN << GrammarOkItem >> ELSE flagged

-----------------------------------------------------------------------------
(* Numbers as Math.max, Math.min and subtraction produce them: a finite     *)
(* integer, +Infinity, -Infinity or NaN.                                   *)

Num(n) == [kind |-> "finite", n |-> n]
PosInfinity == [kind |-> "+Infinity", n |-> 0]
NegInfinity == [kind |-> "-Infinity", n |-> 0]
NaN == [kind |-> "NaN", n |-> 0]

\* Math.max(...xs)
MathMax(xs) == IF xs = <<>> THEN NegInfinity ELSE Num(SetMax(Range(xs)))

\* Math.min(...xs)
MathMin(xs) == IF xs = <<>> THEN PosInfinity ELSE Num(SetMin(Range(xs)))

\* a - b
Minus(a, b) ==
    CASE a.kind = "NaN" \/ b.kind = "NaN" -> NaN
      [] a.kind = "finite" /\ b.kind = "finite" -> Num(a.n - b.n)
      [] a.kind = "finite" /\ b.kind = "+Infinity" -> NegInfinity
      [] a.kind = "finite" /\ b.kind = "-Infinity" -> PosInfinity
      [] a.kind = b.kind -> NaN
      [] OTHER -> a

\* a > n for a finite n
GreaterThan(a, n) == a.kind = "+Infinity" \/ (a.kind = "finite" /\ a.n > n)

\* Math.round(x) for x given in tenths
MathRound(tenths) == (tenths + 5) \div 10

-----------------------------------------------------------------------------
(* Files. A file is what the libraries make of the bytes at filePath:      *)
(*   disk      "ok", or "missing" when fs.readFileSync throws;             *)
(*   pdfParse  "ok", or "reject" when pdf(buffer) rejects;                 *)
(*   text      data.text of pdf-parse: undefined or a string;              *)
(*   pdfjs     "ok", or "reject" when getDocument(...).promise rejects;    *)
(*   pages     per page: whether getPage and getTextContent resolve, and   *)
(*             the items of its text content.                              *)
(* An item is [fontName, transform, str]: fontName "" when it has none,    *)
(* transform <<>> when it has none, else six numbers given in tenths.      *)

TextItem(fontName, transform, str) ==
    [fontName |-> fontName, transform |-> transform, str |-> str]

Page(items) == [getPage |-> "ok", getTextContent |-> "ok", items |-> items]

\* the swapped difference: a mutant of LeftVar
LeftVarSwapped(positions) == Minus(MathMin(positions), MathMax(positions))

\* Math.max(...leftPositions) - Math.min(...leftPositions)
LeftVar(positions) == Minus(MathMax(positions), MathMin(positions))

FontsItem ==
    Item(Warn, " Multiple fonts detected - use one consistent font (e.g., Calibri, Arial).")
SizesItem ==
    Item(Warn, " Too many font sizes - use 10-12 pt for text, 14-16 pt for headings.")
AlignItem ==
    Item(Warn, " Inconsistent text alignment - keep left margins uniform.")
BulletStyleItem ==
    Item(Warn, " Different bullet styles used - stick to one format.")
FormatFailItem ==
    Item(Cross, "Could not analyze formatting (maybe an image-based PDF).")
FormatOkItem ==
    Item(Check, "Formatting appears consistent across sections.")

\* textContent.items.forEach(item => { if (item.fontName) fonts.add(item.fontName) ... })
AddFonts(set, items) ==
    set \cup { items[k].fontName : k \in { j \in 1..Len(items) : items[j].fontName # "" } }

\* ... fontSizes.add(Math.round(item.transform[0]))
AddFontSizes(set, items) ==
    set \cup { MathRound(items[k].transform[1]) :
                  k \in { j \in 1..Len(items) : items[j].transform # <<>> } }

\* ... leftPositions.push(Math.round(item.transform[4]))
PushLeftPositions(seq, items) ==
    LET with == SelectSeq(items, LAMBDA it : it.transform # <<>>)
    IN  seq \o [k \in 1..Len(with) |-> MathRound(with[k].transform[5])]

\* the three pushes that follow the page loop
LayoutFlags(iss, fnts, sizes, lv) ==
    iss \o (IF Cardinality(fnts) > 2 THEN << FontsItem >> ELSE <<>>)
        \o (IF Cardinality(sizes) > 4 THEN << SizesItem >> ELSE <<>>)
        \o (IF GreaterThan(lv, 30) THEN << AlignItem >> ELSE <<>>)

\* page.getTextContent(): a promise; what await makes of it is the text content
GetTextContentPromise(page) == [t |-> "promise", items |-> page.items]
Await(promise) == [t |-> "textContent", items |-> promise.items]

\* x.items: a promise has no such property
ItemsOf(x) == IF x.t = "textContent" THEN [t |-> "array", v |-> x.items] ELSE Undefined

\* items.map(i => i.str).join("\n")
RECURSIVE JoinLines(_)
JoinLines(items) ==
    IF items = <<>> THEN <<>>
    ELSE IF Len(items) = 1 THEN items[1].str
    ELSE items[1].str \o <<"\n">> \o JoinLines(Tail(items))

\* text.match(/^[-•▪*]/gm), as the set of the glyphs matched
BulletTypes(txt) ==
    { txt[k] : k \in { j \in 1..Len(txt) :
        txt[j] \in BulletGlyphs /\ (j = 1 \/ IsLineTerminator(txt[j - 1])) } }

\* the bullet scan of page 1, given the value of page1.getTextContent().items
BulletFlags(iss, items) ==
    IF Cardinality(BulletTypes(JoinLines(items))) > 1
    THEN Append(iss, BulletStyleItem) ELSE iss

\* if (issues.length === 0) issues.push(...); return issues
FinishIssues(iss) == IF Len(iss) = 0 THEN << FormatOkItem >> ELSE iss

-----------------------------------------------------------------------------
(* calculateScore                                                          *)

\* const deductions = {...}: keys in insertion order
deductions ==
    << [icon |-> Red, weight |-> 15], [icon |-> Warn, weight |-> 10],
       [icon |-> Orange, weight |-> 7], [icon |-> Yellow, weight |-> 5] >>

\* Object.keys(deductions).forEach(icon => { if (r.startsWith(icon)) score -= ... })
RECURSIVE ForEachIcon(_, _, _)
ForEachIcon(score, r, k) ==
    IF k > Len(deductions) THEN score
    ELSE ForEachIcon(IF StartsWith(r, deductions[k].icon)
                        THEN score - deductions[k].weight ELSE score, r, k + 1)

\* results.forEach(r => {...})
RECURSIVE ForEachResult(_, _)
ForEachResult(score, rs) ==
    IF rs = <<>> THEN score
    ELSE ForEachResult(ForEachIcon(score, Head(rs), 1), Tail(rs))

MathMax2(a, b) == IF a >= b THEN a ELSE b

calculateScoreUnclamped(rs) == ForEachResult(100, rs)

calculateScore(rs) == MathMax2(0, ForEachResult(100, rs))

-----------------------------------------------------------------------------
(* The files reviewed.                                                     *)

File(disk, pdfParse, txt, pdfjs, pages) ==
    [disk |-> disk, pdfParse |-> pdfParse, text |-> txt, pdfjs |-> pdfjs, pages |-> pages]

\* "Skills:\nProject Work 50%\nA@b.Io 1234567890\n" and forty more words
CleanText ==
    <<"S","k","i","l","l","s",":","\n">>
    \o <<"P","r","o","j","e","c","t"," ","W","o","r","k"," ","5","0","%","\n">>
    \o <<"A","@","b",".","I","o"," ","1","2","3","4","5","6","7","8","9","0","\n">>
    \o Repeat(<<"W","o","r","d"," ">>, 40)

\* "My skills:\nteam work.a.b.c.d.e.f"
MessyText ==
    <<"M","y"," ","s","k","i","l","l","s",":","\n">>
    \o <<"t","e","a","m"," ","w","o","r","k",".","a",".","b",".","c",".","d",".","e",".","f">>

Line(fontName, size, left, str) ==
    TextItem(fontName, << size, 0, 0, size, left, 7000 >>, str)

\* the file cannot be read from disk
MissingFile == File("missing", "ok", Undefined, "ok", <<>>)

\* the file is read, and pdf-parse rejects it
CorruptFile == File("ok", "reject", Undefined, "reject", <<>>)

\* a scanned document: no text layer, one page without text items
ImageFile == File("ok", "ok", Str(<<>>), "ok", << Page(<<>>) >>)

\* one font, one size, one left margin, one bullet glyph
CleanFile ==
    File("ok", "ok", Str(CleanText), "ok",
         << Page(<< Line("g_d0_f1", 120, 720, <<"S","k","i","l","l","s",":">>),
                    Line("g_d0_f1", 120, 720, <<"-"," ","P","r","o","j","e","c","t">>),
                    Line("g_d0_f1", 120, 720, <<"-"," ","W","o","r","d">>) >>) >>)

\* three fonts, five sizes, left margins 31 apart, two bullet glyphs, two pages
MessyFile ==
    File("ok", "ok", Str(MessyText), "ok",
         << Page(<< Line("g_d0_f1", 180, 720, <<"M","y"," ","s","k","i","l","l","s",":">>),
                    Line("g_d0_f2", 120, 1030, <<"-"," ","t","e","a","m">>),
                    Line("g_d0_f2", 110, 720, <<"*"," ","w","o","r","k">>) >>),
            Page(<< Line("g_d0_f3", 100, 720, <<"a",".","b",".","c">>),
                    Line("g_d0_f3", 90, 720, <<"d",".","e",".","f">>) >>) >>)

\* a file pdf-parse reads and pdfjs rejects
NoLayoutFile == File("ok", "ok", Str(MessyText), "reject", <<>>)

Files == { MissingFile, CorruptFile, ImageFile, CleanFile, MessyFile, NoLayoutFile }

\* "Team Work"
JobText == <<"T","e","a","m"," ","W","o","r","k">>

\* jobDesc: absent, or a job description
JobDescs == { Undefined, Str(JobText) }

\* a mutant of TextChecks: the grammar check's feedback is pushed before the
\* keyword check's
TextChecksReordered(txt, jd) ==
    checkBulletPoints(txt) \o checkProjects(txt) \o checkContactFormatting(txt)
    \o checkHeadings(txt) \o checkAchievements(txt) \o checkFileCompatibility(txt)
    \o checkGrammarHeuristics(txt) \o checkKeywordMatch(txt, jd)

\* let results = []; results.push(...checkBulletPoints(text)); ... (eight pushes)
TextChecks(txt, jd) ==
    LET r0 == <<>>
        r1 == r0 \o checkBulletPoints(txt)
        r2 == r1 \o checkProjects(txt)
        r3 == r2 \o checkContactFormatting(txt)
        r4 == r3 \o checkHeadings(txt)
        r5 == r4 \o checkAchievements(txt)
        r6 == r5 \o checkFileCompatibility(txt)
        r7 == r6 \o checkKeywordMatch(txt, jd)
        r8 == r7 \o checkGrammarHeuristics(txt)
    IN  r8

TextCheckNames ==
    << "checkBulletPoints", "checkProjects", "checkContactFormatting", "checkHeadings",
       "checkAchievements", "checkFileCompatibility", "checkKeywordMatch",
       "checkGrammarHeuristics" >>

\* The texts pdf-parse extracts from the files.
Texts == { f.text.v : f \in { g \in Files : g.text.t = "string" } }

\* The eight text checks are pure functions of (text, jobDesc): their feedback
\* for each text and job description of the model, computed once.
TextChecksOf == [txt \in Texts, jd \in JobDescs |-> TextChecks(txt, jd)]

-----------------------------------------------------------------------------
(* reviewResume and checkFormattingConsistency, one action per stretch of   *)
(* code that runs between two awaits.                                      *)

Reviews == 1..NumReviews

PendingRet == [kind |-> "pending", score |-> 0, results |-> <<>>]
\* the promise of reviewResume rejected: an exception left the function
RejectedRet == [kind |-> "rejected", score |-> 0, results |-> <<>>]
\* return console.log(...): the promise resolved with undefined
UndefinedRet == [kind |-> "undefined", score |-> 0, results |-> <<>>]
\* return { score, results }
ResultRet(score, rs) == [kind |-> "result", score |-> score, results |-> rs]

Unset == [kind |-> "unset", n |-> 0]

\* a mutant of NoText: the test of the extracted text is missing
NoTextNever(txt) == FALSE

\* !text
NoText(txt) == txt = <<>>

\* catch (err) { issues.push(...) }, then the end of checkFormattingConsistency:
\* the function returns, and its caller is resumed later
Caught(self, why) ==
    /\ issues' = [issues EXCEPT ![self] = FinishIssues(Append(@, FormatFailItem))]
    /\ raised' = [raised EXCEPT ![self] = why]
    /\ pc' = [pc EXCEPT ![self] = "await checkFormattingConsistency"]

\* checkFormattingConsistency up to its first await: const issues = [];
\* readFileSync; getDocument
EnterFormat(self) ==
    IF filePath[self].disk # "ok"
    THEN /\ issues' = [issues EXCEPT ![self] = FinishIssues(<< FormatFailItem >>)]
         /\ raised' = [raised EXCEPT ![self] = "readFileSync"]
         /\ pc' = [pc EXCEPT ![self] = "await checkFormattingConsistency"]
    ELSE /\ issues' = [issues EXCEPT ![self] = <<>>]
         /\ raised' = raised
         /\ pc' = [pc EXCEPT ![self] = "await getDocument"]

\* reviewResume is called: console.log; parsePDF runs to its await of pdf(buffer)
CallReviewResume(self) ==
    /\ pc[self] = "call reviewResume"
    /\ trace' = [trace EXCEPT ![self] = @ \o << "reviewResume", "parsePDF" >>]
    /\ IF filePath[self].disk # "ok"
       THEN /\ ret' = [ret EXCEPT ![self] = RejectedRet]
            /\ pc' = [pc EXCEPT ![self] = "done"]
       ELSE /\ ret' = ret
            /\ pc' = [pc EXCEPT ![self] = "await pdf"]
    /\ UNCHANGED <<filePath, jobDesc, text, results, issues, fonts, fontSizes,
                   leftPositions, i, leftVar, raised, input, output>>

\* parsePDF resumes: return data.text || ""
ResumeParsePDF(self) ==
    /\ pc[self] = "await pdf"
    /\ IF filePath[self].pdfParse # "ok"
       THEN /\ ret' = [ret EXCEPT ![self] = RejectedRet]
            /\ pc' = [pc EXCEPT ![self] = "done"]
            /\ text' = text
       ELSE /\ ret' = ret
            /\ pc' = [pc EXCEPT ![self] = "await parsePDF"]
            /\ text' = [text EXCEPT ![self] =
                   IF Falsy(filePath[self].text) THEN <<>> ELSE filePath[self].text.v]
    /\ UNCHANGED <<filePath, jobDesc, results, issues, fonts, fontSizes,
                   leftPositions, i, leftVar, raised, trace, input, output>>

\* reviewResume resumes with the text: the test of the text, the eight text
\* checks, and the call of checkFormattingConsistency up to its first await
ResumeWithText(self) ==
    /\ pc[self] = "await parsePDF"
    /\ IF NoText(text[self])
       THEN /\ ret' = [ret EXCEPT ![self] = UndefinedRet]
            /\ pc' = [pc EXCEPT ![self] = "done"]
            /\ UNCHANGED <<results, issues, raised, trace>>
       ELSE /\ results' = [results EXCEPT ![self] = TextChecksOf[text[self], jobDesc[self]]]
            /\ trace' = [trace EXCEPT ![self] =
                            @ \o TextCheckNames \o << "checkFormattingConsistency" >>]
            /\ EnterFormat(self)
            /\ ret' = ret
    /\ UNCHANGED <<filePath, jobDesc, text, fonts, fontSizes, leftPositions, i,
                   leftVar, input, output>>

\* checkFormattingConsistency called on its own
CallFormat(self) ==
    /\ pc[self] = "call checkFormattingConsistency"
    /\ trace' = [trace EXCEPT ![self] = Append(@, "checkFormattingConsistency")]
    /\ EnterFormat(self)
    /\ UNCHANGED <<filePath, jobDesc, text, results, fonts, fontSizes, leftPositions,
                   i, leftVar, ret, input, output>>

\* The code between the page loop and the await of pdf.getPage(1): the three
\* layout flags.
AfterLoop(self, fnts, sizes, lefts) ==
    /\ leftVar' = [leftVar EXCEPT ![self] = LeftVar(lefts)]
    /\ issues' = [issues EXCEPT ![self] = LayoutFlags(@, fnts, sizes, LeftVar(lefts))]
    /\ pc' = [pc EXCEPT ![self] = "await getPage(1)"]
    /\ raised' = raised

\* a mutant of ResumeGetDocument: the three accumulators are declared at
\* module level, so that clearing them clears them for every review in flight
ResumeGetDocumentShared(self) ==
    /\ pc[self] = "await getDocument"
    /\ IF filePath[self].pdfjs # "ok"
       THEN /\ Caught(self, "getDocument")
            /\ UNCHANGED <<fonts, fontSizes, leftPositions, i, leftVar>>
       ELSE /\ fonts' = [r \in Reviews |-> {}]
            /\ fontSizes' = [r \in Reviews |-> {}]
            /\ leftPositions' = [r \in Reviews |-> <<>>]
            /\ i' = [i EXCEPT ![self] = 1]
            /\ IF 1 <= Len(filePath[self].pages)
               THEN /\ pc' = [pc EXCEPT ![self] = "await getPage(i)"]
                    /\ UNCHANGED <<issues, leftVar, raised>>
               ELSE AfterLoop(self, {}, {}, <<>>)
    /\ UNCHANGED <<filePath, jobDesc, text, results, ret, trace, input, output>>

\* checkFormattingConsistency resumes with the document: the three
\* accumulators, and the loop up to its first await
ResumeGetDocument(self) ==
    /\ pc[self] = "await getDocument"
    /\ IF filePath[self].pdfjs # "ok"
       THEN /\ Caught(self, "getDocument")
            /\ UNCHANGED <<fonts, fontSizes, leftPositions, i, leftVar>>
       ELSE /\ fonts' = [fonts EXCEPT ![self] = {}]
            /\ fontSizes' = [fontSizes EXCEPT ![self] = {}]
            /\ leftPositions' = [leftPositions EXCEPT ![self] = <<>>]
            /\ i' = [i EXCEPT ![self] = 1]
            /\ IF 1 <= Len(filePath[self].pages)
               THEN /\ pc' = [pc EXCEPT ![self] = "await getPage(i)"]
                    /\ UNCHANGED <<issues, leftVar, raised>>
               ELSE AfterLoop(self, {}, {}, <<>>)
    /\ UNCHANGED <<filePath, jobDesc, text, results, ret, trace, input, output>>

\* ... resumes with page i: page.getTextContent()
ResumeGetPage(self) ==
    /\ pc[self] = "await getPage(i)"
    /\ IF filePath[self].pages[i[self]].getPage # "ok"
       THEN Caught(self, "getPage")
       ELSE /\ pc' = [pc EXCEPT ![self] = "await getTextContent"]
            /\ UNCHANGED <<issues, raised>>
    /\ UNCHANGED <<filePath, jobDesc, text, results, fonts, fontSizes, leftPositions,
                   i, leftVar, ret, trace, input, output>>

\* ... resumes with the text content of page i: the forEach over its items,
\* i++, and either the next getPage or the code after the loop
ResumeGetTextContent(self) ==
    /\ pc[self] = "await getTextContent"
    /\ LET page == filePath[self].pages[i[self]]
           textContent == Await(GetTextContentPromise(page))
           fnts == AddFonts(fonts[self], textContent.items)
           sizes == AddFontSizes(fontSizes[self], textContent.items)
           lefts == PushLeftPositions(leftPositions[self], textContent.items)
       IN  IF page.getTextContent # "ok"
           THEN /\ Caught(self, "getTextContent")
                /\ UNCHANGED <<fonts, fontSizes, leftPositions, i, leftVar>>
           ELSE /\ fonts' = [fonts EXCEPT ![self] = fnts]
                /\ fontSizes' = [fontSizes EXCEPT ![self] = sizes]
                /\ leftPositions' = [leftPositions EXCEPT ![self] = lefts]
                /\ i' = [i EXCEPT ![self] = @ + 1]
                /\ IF i[self] + 1 <= Len(filePath[self].pages)
                   THEN /\ pc' = [pc EXCEPT ![self] = "await getPage(i)"]
                        /\ UNCHANGED <<issues, leftVar, raised>>
                   ELSE AfterLoop(self, fnts, sizes, lefts)
    /\ UNCHANGED <<filePath, jobDesc, text, results, ret, trace, input, output>>

\* ... resumes with page 1: page1.getTextContent().items.map(...) reads items
\* of a promise that was not awaited; the bullet scan; the end of the function
ResumeGetPage1(self) ==
    /\ pc[self] = "await getPage(1)"
    /\ LET pages == filePath[self].pages
       IN  IF Len(pages) = 0 \/ pages[1].getPage # "ok"
           THEN Caught(self, "getPage(1)")
           ELSE LET items == ItemsOf(GetTextContentPromise(pages[1]))
                IN  IF items = Undefined
                    THEN Caught(self, "items.map")
                    ELSE /\ issues' = [issues EXCEPT ![self] =
                                          FinishIssues(BulletFlags(@, items.v))]
                         /\ pc' = [pc EXCEPT ![self] = "await checkFormattingConsistency"]
                         /\ raised' = raised
    /\ UNCHANGED <<filePath, jobDesc, text, results, fonts, fontSizes, leftPositions,
                   i, leftVar, ret, trace, input, output>>

\* reviewResume resumes with formatResults: the ninth push, the score, the return
ResumeWithFormat(self) ==
    /\ pc[self] = "await checkFormattingConsistency"
    /\ LET formatResults == issues[self]
           all == results[self] \o formatResults
           score == calculateScore(all)
       IN  /\ results' = [results EXCEPT ![self] = all]
           /\ ret' = [ret EXCEPT ![self] = ResultRet(score, all)]
    /\ trace' = [trace EXCEPT ![self] = Append(@, "calculateScore")]
    /\ pc' = [pc EXCEPT ![self] = "done"]
    /\ UNCHANGED <<filePath, jobDesc, text, issues, fonts, fontSizes, leftPositions,
                   i, leftVar, raised, input, output>>

-----------------------------------------------------------------------------
(* reviewResume, NumReviews invocations in flight.                         *)

Init ==
    /\ filePath \in [Reviews -> Files]
    /\ jobDesc \in [Reviews -> JobDescs]
    /\ pc = [r \in Reviews |-> "call reviewResume"]
    /\ text = [r \in Reviews |-> <<>>]
    /\ results = [r \in Reviews |-> <<>>]
    /\ issues = [r \in Reviews |-> <<>>]
    /\ fonts = [r \in Reviews |-> {}]
    /\ fontSizes = [r \in Reviews |-> {}]
    /\ leftPositions = [r \in Reviews |-> <<>>]
    /\ i = [r \in Reviews |-> 0]
    /\ leftVar = [r \in Reviews |-> Unset]
    /\ raised = [r \in Reviews |-> "nothing"]
    /\ ret = [r \in Reviews |-> PendingRet]
    /\ trace = [r \in Reviews |-> <<>>]
    /\ input = <<>>
    /\ output = <<>>

Next ==
    \E self \in Reviews :
        \/ CallReviewResume(self)
        \/ ResumeParsePDF(self)
        \/ ResumeWithText(self)
        \/ ResumeGetDocument(self)
        \/ ResumeGetPage(self)
        \/ ResumeGetTextContent(self)
        \/ ResumeGetPage1(self)
        \/ ResumeWithFormat(self)

Spec == Init /\ [][Next]_vars

-----------------------------------------------------------------------------
(* checkFormattingConsistency called on its own, on generated layouts.     *)

GlyphList == << "-", "U+2022", "U+25AA", "*" >>

\* The j-th text item of a generated layout: the first nFonts items carry
\* distinct font names, the first nRuns carry a transform, of which the first
\* nSizes have distinct scales (x.4, rounded down) and the second stands
\* spread (and four tenths) right of the others; the first nBullets start
\* with distinct bullet glyphs.
LayoutItem(j, nFonts, nSizes, nRuns, spread, nBullets) ==
    TextItem(IF j <= nFonts THEN "g_d0_f" \o ToString(j) ELSE "",
             IF j <= nRuns
             THEN << 100 + 10 * (IF j <= nSizes THEN j ELSE 1) + 4, 0, 0, 100,
                     IF j = 2 THEN 720 + 10 * spread + 4 ELSE 720, 7000 >>
             ELSE <<>>,
             IF j <= nBullets THEN << GlyphList[j], " ", "x" >> ELSE << "x" >>)

Max3(a, b, c) == MathMax2(a, MathMax2(b, c))

\* The items dealt to the pages in turn; fail names the step that fails.
Layout(nFonts, nSizes, spread, nBullets, nPages, fail) ==
    LET nRuns == IF nSizes = 0 THEN 0 ELSE MathMax2(nSizes, 2)
        n == Max3(nFonts, nRuns, nBullets)
        all == [j \in 1..n |-> LayoutItem(j, nFonts, nSizes, nRuns, spread, nBullets)]
        onPage(p) == SelectSeq(all, LAMBDA it : \E j \in 1..n :
                                   all[j] = it /\ (j - 1) % nPages = p - 1)
    IN  File(IF fail.at = "readFileSync" THEN "missing" ELSE "ok", "ok", Str(<<"x">>),
             IF fail.at = "getDocument" THEN "reject" ELSE "ok",
             [p \in 1..nPages |->
                [getPage |-> IF fail.at = "getPage" /\ fail.page = p THEN "reject" ELSE "ok",
                 getTextContent |->
                     IF fail.at = "getTextContent" /\ fail.page = p THEN "reject" ELSE "ok",
                 items |-> onPage(p)]])

Failures(nPages) ==
    { [at |-> a, page |-> 0] : a \in {"nothing", "readFileSync", "getDocument"} }
    \cup { [at |-> a, page |-> p] : a \in {"getPage", "getTextContent"}, p \in 1..nPages }

Layouts ==
    { Layout(nFonts, nSizes, spread, nBullets, nPages, fail) :
        nFonts \in 0..MaxFonts, nSizes \in 0..MaxFontSizes, spread \in {0, 30, 31},
        nBullets \in 0..MaxBulletStyles,
        <<nPages, fail>> \in { <<n, f>> \in (1..MaxPages) \X Failures(MaxPages) :
                                  f.page <= n } }

FormatInit ==
    /\ \E f \in Layouts : filePath = [r \in Reviews |-> f]
    /\ jobDesc = [r \in Reviews |-> Undefined]
    /\ pc = [r \in Reviews |-> IF r = 1 THEN "call checkFormattingConsistency" ELSE "idle"]
    /\ text = [r \in Reviews |-> <<>>]
    /\ results = [r \in Reviews |-> <<>>]
    /\ issues = [r \in Reviews |-> <<>>]
    /\ fonts = [r \in Reviews |-> {}]
    /\ fontSizes = [r \in Reviews |-> {}]
    /\ leftPositions = [r \in Reviews |-> <<>>]
    /\ i = [r \in Reviews |-> 0]
    /\ leftVar = [r \in Reviews |-> Unset]
    /\ raised = [r \in Reviews |-> "nothing"]
    /\ ret = [r \in Reviews |-> PendingRet]
    /\ trace = [r \in Reviews |-> <<>>]
    /\ input = <<>>
    /\ output = <<>>

FormatNext ==
    \E self \in Reviews :
        \/ CallFormat(self)
        \/ ResumeGetDocument(self)
        \/ ResumeGetPage(self)
        \/ ResumeGetTextContent(self)
        \/ ResumeGetPage1(self)

SpecFormat == FormatInit /\ [][FormatNext]_vars

-----------------------------------------------------------------------------
(* calculateScore called on its own, on bounded feedback sequences.        *)

ScoreItems ==
    { Item(Red, " Missing proper contact information (email/phone)."),
      Item(Warn, " Too many font sizes"),
      Item(Orange, " Some sentences start with lowercase letters"),
      Item(Yellow, " Add a 'Projects' section"),
      Item(Green, " Quantify achievements"),
      Item(Check, "No major grammar or structure issues found."),
      Item(Cross, "Could not analyze formatting (maybe an image-based PDF)."),
      Item(<<>>, ""),                                \* the empty string
      Item(<<32>> \o Red, " tag after a space"),     \* icon not leading
      Item(<<9888, 32>>, "sign without U+FE0F"),
      Item(Red \o Yellow, " two icons in a row"),
      Item(<<83, 99>>, "ore: plain text") }

FeedbackInputs ==
    UNION { [1..n -> ScoreItems] : n \in 0..MaxFeedbackLen }
    \cup { [k \in 1..n |-> r] : n \in 0..MaxRepeat, r \in ScoreItems }

\* no review is in flight while a function is called on its own
NoReview ==
    /\ pc = <<>> /\ filePath = <<>> /\ jobDesc = <<>> /\ text = <<>>
    /\ results = <<>> /\ issues = <<>> /\ fonts = <<>> /\ fontSizes = <<>>
    /\ leftPositions = <<>> /\ i = <<>> /\ leftVar = <<>> /\ raised = <<>>
    /\ ret = <<>> /\ trace = <<>>

ScoreInit ==
    /\ input \in FeedbackInputs
    /\ output = <<>>
    /\ NoReview

CallCalculateScore ==
    /\ output = <<>>
    /\ output' = <<calculateScore(input)>>
    /\ UNCHANGED <<input, reviewVars>>

ScoreNext == CallCalculateScore

SpecScore == ScoreInit /\ [][ScoreNext]_vars

-----------------------------------------------------------------------------
(* checkKeywordMatch called on its own, on bounded texts and job           *)
(* descriptions.                                                           *)

SeqsUpTo(S, n) == UNION { [1..k -> S] : k \in 0..n }

KeywordInputs ==
    { [text |-> t, jobDesc |-> jd] :
        t \in SeqsUpTo({"a", "B", " "}, MaxTextLen),
        jd \in {Undefined} \cup { Str(j) : j \in SeqsUpTo({"a", "b", " "}, MaxJobDescLen) } }

KeywordInit ==
    /\ input \in KeywordInputs
    /\ output = <<>>
    /\ NoReview

CallCheckKeywordMatch ==
    /\ output = <<>>
    /\ output' = << checkKeywordMatch(input.text, input.jobDesc) >>
    /\ UNCHANGED <<input, reviewVars>>

KeywordNext == CallCheckKeywordMatch

SpecKeyword == KeywordInit /\ [][KeywordNext]_vars

-----------------------------------------------------------------------------
(* checkGrammarHeuristics called on its own, on texts of up to             *)
(* MaxSentences sentences.                                                 *)

\* n words: the first is W (or w), the others w, sep between them
Words(first, n, sep) == << first >> \o Repeat(sep \o << "w" >>, n - 1)

\* The kinds of sentence a text is made of.
SentenceKinds ==
    << Words("W", 25, <<" ">>) \o << "." >>,            \* 25 words
       << " " >> \o Words("W", 25, <<" ">>) \o << "." >>, \* 25 words after a space
       Words("W", 26, <<"\n">>) \o << "!" >>,           \* 26 words, one per line
       Words("W", 26, <<" ">>) \o << "?" >>,            \* 26 words
       << " " >> \o Words("w", 2, <<" ">>) \o << "." >>,  \* lower-case start
       << " ", "\n", "." >> >>                          \* white space only

\* how many sentences of each kind: at most MaxSentences in all
SentenceCounts ==
    { c \in [1..Len(SentenceKinds) -> 0..MaxSentences] :
        SeqSum([k \in 1..Len(SentenceKinds) |-> c[k]]) <= MaxSentences }

GrammarText(c) ==
    Flatten([k \in 1..Len(SentenceKinds) |-> Repeat(SentenceKinds[k], c[k])])

GrammarInit ==
    /\ \E c \in SentenceCounts : input = GrammarText(c)
    /\ output = <<>>
    /\ NoReview

CallCheckGrammarHeuristics ==
    /\ output = <<>>
    /\ output' = << checkGrammarHeuristics(input) >>
    /\ UNCHANGED <<input, reviewVars>>

GrammarNext == CallCheckGrammarHeuristics

SpecGrammar == GrammarInit /\ [][GrammarNext]_vars

-----------------------------------------------------------------------------
(* The properties checked.                                                 *)

\* whether the string r begins with the code units of icon
LeadingIs(r, icon) ==
    Len(r.head) >= Len(icon) /\ \A k \in 1..Len(icon) : r.head[k] = icon[k]

\* the weight of the tag an item leads with
TagWeight(r) ==
    CASE LeadingIs(r, Red) -> 15
      [] LeadingIs(r, Warn) -> 10
      [] LeadingIs(r, Orange) -> 7
      [] LeadingIs(r, Yellow) -> 5
      [] OTHER -> 0

TotalWeight(rs) == SeqSum([k \in 1..Len(rs) |-> TagWeight(rs[k])])

\* C1: for every feedback sequence, calculateScore returns
\* max(0, 100 - the sum of the weights of the items' leading tags), with weights
\* 15, 10, 7, 5 for the red, warning, orange and yellow tags and 0 for any other
\* leading text; an item counts once, with the weight of the tag it leads with.
C1_ScoreIsClampedWeightedSum ==
    output # <<>> =>
        output[1] = (IF 100 - TotalWeight(input) < 0 THEN 0 ELSE 100 - TotalWeight(input))

\* C1 witness: an item that leads with the red tag followed by the yellow
\* one, a yellow item, and an item whose red tag follows a space: 100 - 15 - 5.
C1_Witness ==
    /\ output = << 80 >>
    /\ input = << Item(Red \o Yellow, " two icons in a row"),
                  Item(Yellow, " Add a 'Projects' section"),
                  Item(<<32>> \o Red, " tag after a space") >>

\* C2: the score is an integer in 0..100 for every feedback sequence; a
\* sequence whose deductions exceed 100 yields 0 (ten red items among them),
\* and the empty sequence yields 100.
C2_ScoreInRange ==
    output # <<>> =>
        /\ output[1] \in 0..100
        /\ (TotalWeight(input) > 100 => output[1] = 0)
        /\ (input = [k \in 1..10 |-> Item(Red, " Missing proper contact information (email/phone).")]
               => output[1] = 0)
        /\ (input = <<>> => output[1] = 100)

\* C2 witness: ten red items score 0.
C2_Witness ==
    /\ input = [k \in 1..10 |-> Item(Red, " Missing proper contact information (email/phone).")]
    /\ output = << 0 >>

\* every step of layout extraction succeeds on the file
Readable(f) ==
    /\ f.disk = "ok" /\ f.pdfjs = "ok" /\ Len(f.pages) >= 1
    /\ \A p \in 1..Len(f.pages) : f.pages[p].getPage = "ok" /\ f.pages[p].getTextContent = "ok"

\* the left offsets collected are at most n apart
SpreadAtMost(positions, n) ==
    \A a \in 1..Len(positions), b \in 1..Len(positions) : positions[a] - positions[b] <= n

\* C3: when layout extraction of a readable PDF finds at most 2 fonts, at most
\* 4 font sizes, left offsets at most 30 apart and at most one bullet glyph on
\* page 1, checkFormattingConsistency returns the success item alone.
C3_CleanLayoutYieldsOnlyOk ==
    \A r \in Reviews :
        ( /\ pc[r] = "await checkFormattingConsistency"
          /\ Readable(filePath[r])
          /\ Cardinality(fonts[r]) <= 2
          /\ Cardinality(fontSizes[r]) <= 4
          /\ SpreadAtMost(leftPositions[r], 30)
          /\ Cardinality(BulletTypes(JoinLines(filePath[r].pages[1].items))) <= 1 )
        => issues[r] = << FormatOkItem >>

\* C4: whenever a step of layout extraction fails, checkFormattingConsistency
\* does not raise and returns the failure item alone; the feedback of the eight
\* text checks is kept and reviewResume returns {score, results}.
C4_FailureYieldsOnlyFailItem ==
    \A r \in Reviews :
        (pc[r] = "done" /\ raised[r] # "nothing") =>
            /\ ret[r].kind = "result"
            /\ ret[r].results = TextChecksOf[text[r], jobDesc[r]] \o << FormatFailItem >>

\* pdf-parse reads the file and finds no text in it
NoTextLayer(f) == f.disk = "ok" /\ f.pdfParse = "ok" /\ Falsy(f.text)

\* C5: when text extraction yields an empty string, reviewResume stops there:
\* no check is called, checkFormattingConsistency is not started,
\* calculateScore is not called, no {score, results} is returned, and what the
\* caller gets (the promise resolved with undefined) differs from a result and
\* from the rejection it gets when the file cannot be read from disk.
C5_EmptyTextShortCircuits ==
    \A r \in Reviews :
        NoTextLayer(filePath[r]) =>
            /\ \A k \in 1..Len(trace[r]) : trace[r][k] \in {"reviewResume", "parsePDF"}
            /\ pc[r] \in {"call reviewResume", "await pdf", "await parsePDF", "done"}
            /\ results[r] = <<>> /\ issues[r] = <<>>
            /\ ret[r].kind \in {"pending", "undefined"}
            /\ (pc[r] = "done" => ret[r] = UndefinedRet)
            /\ \A q \in Reviews :
                  (pc[q] = "done" /\ filePath[q].disk = "missing") =>
                      ret[q].kind = "rejected"

\* C5 witness: a review of a scanned document and a review of a missing file
\* have both ended.
C5_Witness ==
    \E r, q \in Reviews :
        /\ pc[r] = "done" /\ filePath[r] = ImageFile /\ ret[r] = UndefinedRet
        /\ pc[q] = "done" /\ filePath[q] = MissingFile /\ ret[q] = RejectedRet

\* what each of the eight text checks returns, in the order of the battery
BatteryOutputs ==
    [txt \in Texts, jd \in JobDescs |->
        << checkBulletPoints(txt), checkProjects(txt), checkContactFormatting(txt),
           checkHeadings(txt), checkAchievements(txt), checkFileCompatibility(txt),
           checkKeywordMatch(txt, jd), checkGrammarHeuristics(txt) >>]

CallOrder ==
    << "reviewResume", "parsePDF" >> \o TextCheckNames
    \o << "checkFormattingConsistency", "calculateScore" >>

\* C6: the results of every ReviewResult are the outputs of the eight text
\* checks and of the formatting check, concatenated in the order of the
\* battery, nothing dropped or moved; no check is called before text
\* extraction has completed, and the score is computed from all nine outputs.
C6_ResultsInBatteryOrder ==
    \A r \in Reviews :
        /\ trace[r] = SubSeq(CallOrder, 1, Len(trace[r]))
        /\ (pc[r] \in {"call reviewResume", "await pdf", "await parsePDF"}
               => Len(trace[r]) <= 2)
        /\ (ret[r].kind = "result" =>
               /\ ret[r].results = Flatten(BatteryOutputs[text[r], jobDesc[r]]) \o issues[r]
               /\ ret[r].score = calculateScore(ret[r].results)
               /\ trace[r] = CallOrder)

\* C6 witness: a review with a job description has returned twelve items: the
\* feedback of all eight text checks (the keyword item before the grammar item)
\* and four items of the formatting check.
C6_Witness ==
    \E r \in Reviews :
        /\ ret[r].kind = "result" /\ filePath[r] = MessyFile /\ jobDesc[r] = Str(JobText)
        /\ Len(ret[r].results) = 12
        /\ LeadingIs(ret[r].results[7], Green) /\ LeadingIs(ret[r].results[8], Orange)
        /\ ret[r].results[12] = FormatFailItem

\* what checkFormattingConsistency returns for a file when run from start to end
FormatAlone(f) ==
    IF ~Readable(f) THEN << FormatFailItem >>
    ELSE LET all == Flatten([p \in 1..Len(f.pages) |-> f.pages[p].items])
             flags == LayoutFlags(<<>>, AddFonts({}, all), AddFontSizes({}, all),
                                  LeftVar(PushLeftPositions(<<>>, all)))
             items == ItemsOf(GetTextContentPromise(f.pages[1]))
         IN  IF items = Undefined THEN Append(flags, FormatFailItem)
             ELSE FinishIssues(BulletFlags(flags, items.v))

\* how reviewResume(f, jd) settles when it runs alone, from start to end
ReviewAlone ==
    [f \in Files, jd \in JobDescs |->
        IF f.disk # "ok" \/ f.pdfParse # "ok" THEN RejectedRet
        ELSE IF Falsy(f.text) THEN UndefinedRet
        ELSE LET all == TextChecks(f.text.v, jd) \o FormatAlone(f)
             IN  ResultRet(calculateScore(all), all)]

\* C7: what a review returns depends on the file and the job description
\* only: however its steps interleave with those of other reviews, of the same
\* file or of others, it settles as it does when run alone, and two reviews of
\* the same file and job description settle alike.
C7_ReviewIsAFunctionOfItsInput ==
    \A r \in Reviews :
        pc[r] = "done" =>
            /\ ret[r] = ReviewAlone[filePath[r], jobDesc[r]]
            /\ \A q \in Reviews :
                  (pc[q] = "done" /\ filePath[q] = filePath[r] /\ jobDesc[q] = jobDesc[r])
                      => ret[q] = ret[r]

\* C7 witness: two reviews of the same two-page file and job description
\* have both run their page loops and returned the same result.
C7_Witness ==
    \E r, q \in Reviews :
        /\ r # q
        /\ pc[r] = "done" /\ pc[q] = "done"
        /\ filePath[r] = MessyFile /\ filePath[q] = MessyFile
        /\ jobDesc[r] = jobDesc[q]
        /\ ret[r].kind = "result" /\ ret[q] = ret[r]

\* C8: checkKeywordMatch returns no item when jobDesc is empty or absent, and
\* exactly one item, tagged green, when it is not; the item deducts nothing,
\* so a score is the same with and without it.
C8_KeywordItemOnlyWithJobDesc ==
    output # <<>> =>
        /\ (input.jobDesc = Undefined \/ input.jobDesc = Str(<<>>)) => output[1] = <<>>
        /\ (input.jobDesc # Undefined /\ input.jobDesc # Str(<<>>)) =>
              Len(output[1]) = 1 /\ LeadingIs(output[1][1], Green)
        /\ \A before, after \in { <<>>, << FontsItem >>, << LowercaseItem, FormatFailItem >> } :
              calculateScore(before \o output[1] \o after) = calculateScore(before \o after)

\* C8 witness: a job description that matches the text but for its case.
C8_Witness ==
    /\ input = [text |-> <<"a", "B">>, jobDesc |-> Str(<<"a", "b">>)]
    /\ output = << << Item(Green, " Keyword match score: 100.00%") >> >>

\* the trimmed non-empty pieces between '.', '!' and '?'
TrimmedSentences(txt) ==
    LET pieces == SplitClass(txt, {".", "!", "?"})
        kept == SelectSeq(pieces, LAMBDA s : \E k \in 1..Len(s) : ~IsSpace(s[k]))
    IN  [k \in 1..Len(kept) |-> trim(kept[k])]

\* the number of white-space-delimited words of s
WordCount(s) ==
    Cardinality({ k \in 1..Len(s) : ~IsSpace(s[k]) /\ (k = 1 \/ IsSpace(s[k - 1])) })

\* C9: checkGrammarHeuristics emits the long-sentences item if and only if
\* more than 5 sentences hold more than 25 white-space-delimited words each;
\* it emits the success item if and only if it emits neither flag, so its
\* output is never empty and never holds the success item beside a flag.
C9_LongSentencesByWordCount ==
    output # <<>> =>
        LET out == output[1]
            sentences == TrimmedSentences(input)
            long == { k \in 1..Len(sentences) : WordCount(sentences[k]) > 25 }
            longFlag == \E k \in 1..Len(out) : \E n \in 0..Len(input) : out[k] = LongItem(n)
            lowerFlag == \E k \in 1..Len(out) : out[k] = LowercaseItem
            okItem == \E k \in 1..Len(out) : out[k] = GrammarOkItem
        IN  /\ longFlag <=> Cardinality(long) > 5
            /\ okItem <=> (~longFlag /\ ~lowerFlag)
            /\ out # <<>>
            /\ ~(okItem /\ (longFlag \/ lowerFlag))

\* C10: when no left offset was collected, the spread computation does not
\* raise and the alignment item is not emitted.
C10_NoOffsetsNoAlignmentFlag ==
    \A r \in Reviews :
        (leftVar[r] # Unset /\ leftPositions[r] = <<>>) =>
            /\ ~GreaterThan(leftVar[r], 30)
            /\ \A k \in 1..Len(issues[r]) : issues[r][k] # AlignItem
            /\ (pc[r] = "await getPage(1)" => raised[r] = "nothing")
            /\ raised[r] \in {"nothing", "getPage(1)", "items.map"}

\* C10 witness: the page loop has ended on text items that carry a font name
\* and no transform, and the function waits for page 1.
C10_Witness ==
    \E r \in Reviews :
        /\ pc[r] = "await getPage(1)"
        /\ fonts[r] # {} /\ leftPositions[r] = <<>>
        /\ leftVar[r] = NegInfinity
        /\ issues[r] = << FontsItem >>

====
